---- MODULE Spec2Model ----
(***************************************************************************)
(* Model of the UCPG payment gateway (apps/payments, apps/providers).      *)
(*                                                                         *)
(* Persistent rows (Transaction, PromoLink, PayoutRequest, EscrowAccount,  *)
(* CommissionSetting, ProviderWebhook) are the shared state.  A request    *)
(* handler or task runs in a worker: it loads rows into in-memory objects  *)
(* (a snapshot), and Model.save() writes every field of the object back.   *)
(* Handlers are split at their database reads and writes and at the calls  *)
(* to external rails, which is where other workers can interleave.  The    *)
(* stored rows are the committed ones: what a handler writes inside        *)
(* transaction.atomic() reaches them when the block ends.                  *)
(*                                                                         *)
(* Specifications:                                                         *)
(*   Spec            payment / claim / expiry orchestration                *)
(*   SpecEscrow      EscrowAccount operations by concurrent workers        *)
(*   SpecCommission  commission resolution and stored amounts              *)
(*   SpecWebhook     ProviderWebhook delivery and retry                    *)
(***************************************************************************)
EXTENDS Integers, Sequences, FiniteSets, TLC

VARIABLES
    now,        \* Spec: clock (timezone.now()), in ticks
    txn,        \* Spec: Transaction rows
    promo,      \* Spec: PromoLink rows (one per transaction)
    payout,     \* Spec: PayoutRequest row of each PromoLink (or none)
    tlog,       \* Spec: the newest TransactionLog row of each Transaction
    whq,        \* Spec: number of ProviderWebhook rows of each Transaction
    xr,         \* SpecExchange: a call of get_exchange_rate and its result
    wrun,       \* SpecWebhookRuns: the rows the running tasks hold
    sw,         \* SpecSweep: the tables PaymentService.expire_old_transactions sees
    acct,       \* Spec, SpecEscrow: EscrowAccount rows by account_type
    pc,         \* Spec: position of each worker inside its handler
    loc,        \* Spec: in-memory objects of each worker
    eobj,       \* SpecEscrow: in-memory EscrowAccount object of each worker
    eres,       \* SpecEscrow: the last escrow call and its result
    cfg,        \* SpecCommission: CommissionSetting rows and the Provider
    stored,     \* SpecCommission: amounts of the last stored Transaction
    setting,    \* SpecSetting: the CommissionSetting row last written
                \* through update_commission_setting, and the last call
    wh,         \* SpecWebhook: the ProviderWebhook row
    wnow,       \* SpecWebhook: clock in seconds
    whist       \* SpecWebhook: delays that preceded each retry made

vars == <<now, txn, promo, payout, tlog, whq, xr, wrun, sw, acct, pc, loc,
          eobj, eres, cfg, stored, setting, wh, wnow, whist>>


-----------------------------------------------------------------------------
(* Bounds of the model *)

NumWorkers == 2
NumTxns == 1
\* clock values 0..MaxTime; a transaction created at 0 expires after ExpiryTime
MaxTime == 2
ExpiryTime == 1
\* a crypto deposit counts as confirmed once more than ConfirmDelay ticks passed
ConfirmDelay == 0
\* escrow credits that the model follows
MaxCredits == 2
\* workers of SpecRace
NumRaceWorkers == 3

Workers == 1..NumWorkers
RaceWorkers == 1..NumRaceWorkers
Txns == 1..NumTxns

-----------------------------------------------------------------------------
(* Transaction *)

STATUS_CHOICES ==
    {"pending", "payment_processing", "payment_confirmed", "escrowed",
     "ready_for_claim", "claim_processing", "completed", "expired",
     "cancelled", "failed", "refunded"}

\* the transition table of the state machine
AllowedTransitions ==
    {<<"pending", "payment_processing">>, <<"pending", "expired">>,
     <<"pending", "cancelled">>,
     <<"payment_processing", "payment_confirmed">>,
     <<"payment_processing", "failed">>,
     <<"payment_confirmed", "escrowed">>,
     <<"escrowed", "ready_for_claim">>,
     <<"ready_for_claim", "claim_processing">>,
     <<"ready_for_claim", "expired">>,
     <<"claim_processing", "completed">>,
     <<"claim_processing", "ready_for_claim">>,
     <<"claim_processing", "refunded">>}

\* the statuses from which the state machine has no transition
TerminalStates == {"completed", "expired", "cancelled", "failed", "refunded"}

\* (original currency, converted currency) of the transactions followed
CurrencyPairs == {<<"USD", "USDT">>, <<"BTC", "USD">>}

\* currencies the crypto rail knows
CryptoRailCurrencies == {"BTC", "ETH", "USDT", "USDC"}

\* net_amount of every transaction followed (100 at rate 0.05)
NetAmount == 95

\* Transaction.objects.create in _create_transaction: status defaults to
\* pending, the rail references are blank, completed_at is null; the
\* payment was made through a provider
NewTransaction(pair) ==
    [status |-> "pending",
     stripe_payment_intent_id |-> FALSE,
     crypto_deposit_address |-> FALSE,
     completed_at |-> FALSE,
     original_currency |-> pair[1],
     converted_currency |-> pair[2],
     created_at |-> 0,
     expires_at |-> ExpiryTime,
     provider |-> TRUE]

\* PromoLink.objects.create in create_promo_link
NewPromoLink(t) == [is_used |-> FALSE, expires_at |-> t.expires_at]

\* Transaction.is_expired / PromoLink.is_expired
is_expired(row) == now > row.expires_at

NoPayout == [status |-> "none", external_payout_id |-> FALSE,
             failure_reason |-> FALSE]

\* TransactionLog: old_status and new_status of a row; no row yet
NoLog == [old_status |-> "none", new_status |-> "none"]

\* _log_transaction_action(transaction_obj, action, old_status, new_status):
\* old_status defaults to '', new_status to the object's status
log_transaction_action(t, obj, old_status, new_status) ==
    tlog' = [tlog EXCEPT ![t] =
                [old_status |-> old_status,
                 new_status |-> IF new_status = "" THEN obj.status
                                ELSE new_status]]

\* _notify_provider(transaction_obj, event): nothing for a transaction
\* without provider; otherwise the event is written to the application
\* log and no ProviderWebhook row is created
notify_provider(t, obj, event) == whq' = whq

-----------------------------------------------------------------------------
(* EscrowAccount *)

AccountTypes == {"stripe", "crypto"}

NoAccount == [exists |-> FALSE, total_balance |-> 0,
              available_balance |-> 0, reserved_balance |-> 0]

\* the defaults of EscrowAccount.objects.get_or_create
get_or_create(a) ==
    IF a.exists THEN a
    ELSE [exists |-> TRUE, total_balance |-> 0,
          available_balance |-> 0, reserved_balance |-> 0]

\* "Add funds to escrow" of _move_to_escrow / _move_crypto_to_escrow,
\* on the in-memory object
AddFunds(a, amount) ==
    [a EXCEPT !.total_balance = @ + amount,
              !.available_balance = @ + amount]

-----------------------------------------------------------------------------
(* Workers *)

NoTxn == NumTxns + 1
NoRow == [status |-> "none"]
NoRecipient == [contact |-> FALSE, wallet |-> "none", payout_method |-> "none"]

IdleLoc == [t |-> NoTxn, row |-> NoRow, rcp |-> NoRecipient]

\* an idle worker takes up a request
Begin(w) == pc[w] = "idle"

\* Transaction.objects.get: the row becomes the worker's in-memory object
Load(w, t, label) ==
    /\ pc' = [pc EXCEPT ![w] = label]
    /\ loc' = [loc EXCEPT ![w] = [t |-> t, row |-> txn[t], rcp |-> NoRecipient]]

\* SaveStatus with a Transaction.save that sets expires_at whether or not
\* the object has one
SaveStatus_sets_expiry(w, s, obj) ==
    txn' = [txn EXCEPT ![loc[w].t] =
               [obj EXCEPT !.status = s, !.expires_at = now + ExpiryTime]]

\* transaction.status = s ; transaction.save(): every field of the in-memory
\* object is written; save() sets expires_at only on an object without one
SaveStatus(w, s, obj) ==
    txn' = [txn EXCEPT ![loc[w].t] = [obj EXCEPT !.status = s]]

\* the handler ends: its in-memory objects are gone
Return(w) ==
    /\ pc' = [pc EXCEPT ![w] = "idle"]
    /\ loc' = [loc EXCEPT ![w] = IdleLoc]

\* the handler goes on with obj as its in-memory transaction
Goto(w, label, obj) ==
    /\ pc' = [pc EXCEPT ![w] = label]
    /\ loc' = [loc EXCEPT ![w].row = obj]

\* the variables of the other specifications
otherVars ==
    <<xr, wrun, sw, eobj, eres, cfg, stored, setting, wh, wnow, whist>>

-----------------------------------------------------------------------------
(* PaymentService.process_fiat_payment *)

FiatRead(w, t) ==
    /\ Begin(w)
    /\ IF txn[t].status # "pending"
       THEN UNCHANGED <<pc, loc>>
       ELSE Load(w, t, "fiat_processing")
    /\ UNCHANGED <<now, txn, promo, payout, acct, tlog, whq, otherVars>>

FiatMarkProcessing(w) ==
    /\ pc[w] = "fiat_processing"
    /\ SaveStatus(w, "processing", loc[w].row)
    /\ log_transaction_action(loc[w].t, loc[w].row, "pending", "processing")
    /\ Goto(w, "fiat_finish", [loc[w].row EXCEPT !.status = "processing"])
    /\ UNCHANGED <<now, promo, payout, acct, whq, otherVars>>

\* _process_stripe_payment always reports success; any other method raises
\* after the status was already written
FiatFinish(w, method) ==
    /\ pc[w] = "fiat_finish"
    /\ IF method = "stripe"
       THEN /\ SaveStatus(w, "completed",
                          [loc[w].row EXCEPT !.completed_at = TRUE])
            /\ log_transaction_action(
                   loc[w].t, [loc[w].row EXCEPT !.status = "completed"], "", "")
            /\ notify_provider(
                   loc[w].t, [loc[w].row EXCEPT !.status = "completed"],
                   "payment_completed")
       ELSE UNCHANGED <<txn, tlog, whq>>
    /\ Return(w)
    /\ UNCHANGED <<now, promo, payout, acct, otherVars>>

-----------------------------------------------------------------------------
(* PaymentService.create_card_payment_intent /                             *)
(* StripePaymentService.create_payment_intent                              *)

IntentRead(w, t) ==
    /\ Begin(w)
    /\ Load(w, t, "intent_create")
    /\ UNCHANGED <<now, txn, promo, payout, acct, tlog, whq, otherVars>>

\* stripe.PaymentIntent.create succeeds (created) or raises StripeError
IntentCreate(w, created) ==
    /\ pc[w] = "intent_create"
    /\ IF created
       THEN /\ SaveStatus(w, "payment_processing",
                          [loc[w].row EXCEPT !.stripe_payment_intent_id = TRUE])
            /\ log_transaction_action(
                   loc[w].t, [loc[w].row EXCEPT !.status = "payment_processing"],
                   "", "")
       ELSE UNCHANGED <<txn, tlog>>
    /\ Return(w)
    /\ UNCHANGED <<now, promo, payout, acct, whq, otherVars>>

-----------------------------------------------------------------------------
(* StripePaymentService.capture_payment and _move_to_escrow, on the        *)
(* worker's in-memory transaction                                          *)

\* the credits made to the escrow accounts so far
Credits ==
    (acct["stripe"].total_balance + acct["crypto"].total_balance) \div NetAmount

\* capture_payment when stripe.PaymentIntent.capture reports succeeded
CaptureSucceeded(w) ==
    /\ Credits < MaxCredits
    /\ acct' = [acct EXCEPT !["stripe"] =
                   AddFunds(get_or_create(acct["stripe"]), NetAmount)]
    /\ SaveStatus(w, "escrowed", loc[w].row)

-----------------------------------------------------------------------------
(* PaymentService.confirm_card_payment *)

ConfirmRead(w, t) ==
    /\ Begin(w)
    /\ IF ~txn[t].stripe_payment_intent_id
       THEN UNCHANGED <<pc, loc>>
       ELSE Load(w, t, "confirm_capture")
    /\ UNCHANGED <<now, txn, promo, payout, acct, tlog, whq, otherVars>>

\* confirm_payment_intent answers succeeded / requires_action / error; on
\* succeeded the payment is captured at once
ConfirmCapture(w, confirmed, captured) ==
    /\ pc[w] = "confirm_capture"
    /\ IF confirmed = "succeeded" /\ captured
       THEN /\ CaptureSucceeded(w)
            /\ Goto(w, "confirm_escrowed",
                    [loc[w].row EXCEPT !.status = "escrowed"])
       ELSE /\ UNCHANGED <<txn, acct>>
            /\ Return(w)
    /\ UNCHANGED <<now, promo, payout, tlog, whq, otherVars>>

ConfirmEscrowed(w) ==
    /\ pc[w] = "confirm_escrowed"
    /\ SaveStatus(w, "escrowed", loc[w].row)
    /\ Goto(w, "confirm_ready", [loc[w].row EXCEPT !.status = "escrowed"])
    /\ UNCHANGED <<now, promo, payout, acct, tlog, whq, otherVars>>

ConfirmReady(w) ==
    /\ pc[w] = "confirm_ready"
    /\ SaveStatus(w, "ready_for_claim", loc[w].row)
    /\ log_transaction_action(
           loc[w].t, [loc[w].row EXCEPT !.status = "ready_for_claim"], "", "")
    /\ Return(w)
    /\ UNCHANGED <<now, promo, payout, acct, whq, otherVars>>

-----------------------------------------------------------------------------
(* PaymentService.process_crypto_payment / CryptoWalletService *)

CryptoRead(w, t) ==
    /\ Begin(w)
    /\ IF txn[t].crypto_deposit_address
       THEN Load(w, t, "crypto_check")
       ELSE Load(w, t, "crypto_address")
    /\ UNCHANGED <<now, txn, promo, payout, acct, tlog, whq, otherVars>>

\* generate_deposit_address: _generate_btc_address / _generate_eth_address
CryptoGenerateAddress(w) ==
    /\ pc[w] = "crypto_address"
    /\ IF loc[w].row.original_currency \in CryptoRailCurrencies
       THEN SaveStatus(w, "payment_processing",
                       [loc[w].row EXCEPT !.crypto_deposit_address = TRUE])
       ELSE UNCHANGED txn
    /\ Return(w)
    /\ UNCHANGED <<now, promo, payout, acct, tlog, whq, otherVars>>

\* check_deposit_confirmation: _check_btc_deposit / _check_eth_deposit
CryptoCheckDeposit(w) ==
    /\ pc[w] = "crypto_check"
    /\ IF /\ loc[w].row.original_currency \in CryptoRailCurrencies
          /\ now - loc[w].row.created_at > ConfirmDelay
       THEN /\ SaveStatus(w, "payment_confirmed", loc[w].row)
            /\ Goto(w, "crypto_escrow",
                    [loc[w].row EXCEPT !.status = "payment_confirmed"])
       ELSE /\ UNCHANGED txn
            /\ Return(w)
    /\ UNCHANGED <<now, promo, payout, acct, tlog, whq, otherVars>>

\* _move_crypto_to_escrow
CryptoMoveToEscrow(w) ==
    /\ pc[w] = "crypto_escrow"
    /\ Credits < MaxCredits
    /\ acct' = [acct EXCEPT !["crypto"] =
                   AddFunds(get_or_create(acct["crypto"]), NetAmount)]
    /\ SaveStatus(w, "escrowed", loc[w].row)
    /\ Return(w)
    /\ UNCHANGED <<now, promo, payout, tlog, whq, otherVars>>

-----------------------------------------------------------------------------
(* StripePaymentService.handle_webhook *)

\* _handle_payment_succeeded: the transaction is found by its intent id
WebhookSucceededRead(w, t) ==
    /\ txn[t].stripe_payment_intent_id
    /\ Begin(w)
    /\ IF txn[t].status = "payment_processing"
       THEN Load(w, t, "webhook_capture")
       ELSE UNCHANGED <<pc, loc>>
    /\ UNCHANGED <<now, txn, promo, payout, acct, tlog, whq, otherVars>>

WebhookCapture(w, captured) ==
    /\ pc[w] = "webhook_capture"
    /\ IF captured
       THEN CaptureSucceeded(w)
       ELSE UNCHANGED <<txn, acct>>
    /\ Return(w)
    /\ UNCHANGED <<now, promo, payout, tlog, whq, otherVars>>

\* _handle_payment_failed: found by intent id, status written at once
WebhookPaymentFailed(t) ==
    /\ txn[t].stripe_payment_intent_id
    /\ txn' = [txn EXCEPT ![t].status = "failed"]
    /\ UNCHANGED <<now, promo, payout, acct, pc, loc, tlog, whq, otherVars>>

\* _handle_transfer_created
WebhookTransferCreated(t) ==
    /\ payout[t].external_payout_id
    /\ payout' = [payout EXCEPT ![t].status = "processing"]
    /\ UNCHANGED <<now, txn, promo, acct, pc, loc, tlog, whq, otherVars>>

\* _handle_payout_paid
WebhookPayoutPaid(t) ==
    /\ payout[t].external_payout_id
    /\ payout' = [payout EXCEPT ![t].status = "completed"]
    /\ txn' = [txn EXCEPT ![t].status = "completed"]
    /\ UNCHANGED <<now, promo, acct, pc, loc, tlog, whq, otherVars>>

-----------------------------------------------------------------------------
(* PromoLinkService.claim_promo_link and                                   *)
(* PaymentService.process_promo_claim_with_payout                          *)

\* recipient_data: contact = any of email / telegram / wallet is given;
\* wallet = none, or valid / invalid for the payout currency's address format
Recipients ==
    {[contact |-> FALSE, wallet |-> "none", payout_method |-> "crypto_wallet"],
     [contact |-> TRUE, wallet |-> "valid", payout_method |-> "crypto"],
     [contact |-> TRUE, wallet |-> "valid", payout_method |-> "crypto_wallet"],
     [contact |-> TRUE, wallet |-> "invalid", payout_method |-> "crypto_wallet"],
     [contact |-> TRUE, wallet |-> "none", payout_method |-> "stripe_card"]}

\* the choices of ClaimPromoSerializer.payout_method
SubmittableMethods == {"crypto", "email", "telegram"}

\* _validate_promo_link: the error code, or "VALID"
validate_promo_link(link, transaction) ==
    IF link.is_used THEN "ALREADY_USED"
    ELSE IF is_expired(link) THEN "EXPIRED"
    ELSE IF transaction.status \notin {"completed", "pending"}
    THEN "INVALID_TRANSACTION"
    ELSE "VALID"

\* _validate_promo_link, then _validate_recipient_data of _process_claim
\* (_simulate_payout always succeeds): the error code, or "SUCCESS"
ValidateClaim(link, transaction, rcp) ==
    IF validate_promo_link(link, transaction) # "VALID"
    THEN validate_promo_link(link, transaction)
    ELSE IF ~rcp.contact THEN "INVALID_RECIPIENT_DATA"
    ELSE "SUCCESS"

\* claim_promo_link up to the validation, on freshly loaded rows
ClaimRead(w, t, rcp) ==
    /\ Begin(w)
    /\ LET code == ValidateClaim(promo[t], txn[t], rcp)
       IN IF code = "SUCCESS"
          THEN /\ pc' = [pc EXCEPT ![w] = "claim_mark"]
               /\ loc' = [loc EXCEPT ![w] = [t |-> t, row |-> txn[t], rcp |-> rcp]]
          ELSE UNCHANGED <<pc, loc>>
    /\ UNCHANGED <<now, txn, promo, payout, acct, tlog, whq, otherVars>>

\* PromoLink.mark_as_used
mark_as_used(link) == [link EXCEPT !.is_used = TRUE]

\* the block's UPDATE of a PromoLink row holds the row until the block
\* ends: the worker that is in the rail call holds the row of its link
PromoLocked(t) == \E w \in DOMAIN pc : pc[w] = "claim_rail" /\ loc[w].t = t

\* _create_payout_request
NewPayoutRequest == [status |-> "pending", external_payout_id |-> FALSE,
                     failure_reason |-> FALSE]

\* ClaimMark with a PayoutRequest.promo_link that is not unique: a second
\* PayoutRequest is created for a link that has one
ClaimMark_not_unique(w) ==
    /\ pc[w] = "claim_mark"
    /\ ~PromoLocked(loc[w].t)
    /\ LET t == loc[w].t
           claimed == loc[w].row.status = "completed"
           fresh == IF claimed THEN [loc[w].row EXCEPT !.status = "claimed"]
                    ELSE txn[t]
       IN IF fresh.status # "ready_for_claim"
          THEN /\ promo' = [promo EXCEPT ![t] = mark_as_used(promo[t])]
               /\ txn' = IF claimed THEN [txn EXCEPT ![t] = fresh] ELSE txn
               /\ UNCHANGED payout
               /\ Return(w)
          ELSE /\ UNCHANGED <<txn, promo, payout>>
               /\ Goto(w, "claim_rail", fresh)
    /\ UNCHANGED <<now, acct, tlog, whq, otherVars>>

\* claim_promo_link from mark_as_used on (the claim has succeeded), then
\* process_promo_claim_with_payout up to the call of the rail.  The writes
\* are made inside transaction.atomic(): they reach the stored rows when
\* the block is left by a return, and are dropped when an exception leaves
\* it.  The rows are read again inside the block.
ClaimMark(w) ==
    /\ pc[w] = "claim_mark"
    /\ ~PromoLocked(loc[w].t)
    /\ LET t == loc[w].t
           claimed == loc[w].row.status = "completed"
           fresh == IF claimed THEN [loc[w].row EXCEPT !.status = "claimed"]
                    ELSE txn[t]
       IN IF fresh.status # "ready_for_claim"
          THEN \* NOT_READY is returned: the block commits
               /\ promo' = [promo EXCEPT ![t] = mark_as_used(promo[t])]
               /\ txn' = IF claimed THEN [txn EXCEPT ![t] = fresh] ELSE txn
               /\ UNCHANGED payout
               /\ Return(w)
          ELSE IF payout[t].status # "none"
          THEN \* PayoutRequest.promo_link is one-to-one: IntegrityError
               \* leaves the block
               /\ UNCHANGED <<txn, promo, payout>>
               /\ Return(w)
          ELSE \* the PayoutRequest is created with status pending
               /\ UNCHANGED <<txn, promo, payout>>
               /\ Goto(w, "claim_rail", fresh)
    /\ UNCHANGED <<now, acct, tlog, whq, otherVars>>

\* _process_payout with the rails behind it (create_payout /
\* create_crypto_payout): the PayoutRequest afterwards.  rail = "ok",
\* "stripe_error" or "error" is how the external call ended.
ProcessPayout(p, rcp, currency, rail) ==
    IF rcp.payout_method \in {"stripe_card", "bank_transfer"}
    THEN IF rail = "ok"
         THEN [p EXCEPT !.status = "processing", !.external_payout_id = TRUE]
         ELSE IF rail = "stripe_error"
         THEN [p EXCEPT !.status = "failed", !.failure_reason = TRUE]
         ELSE p
    ELSE IF rcp.payout_method = "crypto_wallet"
    THEN IF rcp.wallet = "none" THEN p
         ELSE IF currency \notin CryptoRailCurrencies THEN p
         ELSE IF rcp.wallet = "invalid" THEN p
         ELSE [p EXCEPT !.status = "processing", !.external_payout_id = TRUE]
    ELSE p

\* payout_result['success']
PayoutSucceeded(p) == p.status = "processing"

\* how the call of the external rail can end
Rails == {"ok", "stripe_error", "error"}

\* the rail's answer arrives and process_promo_claim_with_payout returns:
\* the block commits the link, the PayoutRequest and the transaction
ClaimPayout(w, rail) ==
    /\ pc[w] = "claim_rail"
    /\ LET t == loc[w].t
           p == ProcessPayout(NewPayoutRequest, loc[w].rcp,
                              loc[w].row.converted_currency, rail)
       IN /\ payout' = [payout EXCEPT ![t] = p]
          /\ IF PayoutSucceeded(p)
             THEN /\ SaveStatus(w, "claim_processing", loc[w].row)
                  /\ log_transaction_action(
                         t, [loc[w].row EXCEPT !.status = "claim_processing"],
                         "", "")
                  /\ promo' = [promo EXCEPT ![t] = mark_as_used(promo[t])]
             ELSE \* "Revert promo link claim if payout fails"
                  /\ promo' = [promo EXCEPT ![t].is_used = FALSE]
                  /\ SaveStatus(w, "ready_for_claim", loc[w].row)
                  /\ UNCHANGED tlog
    /\ Return(w)
    /\ UNCHANGED <<now, acct, whq, otherVars>>

\* the worker process dies while the rail is being called: the database
\* connection closes and the open block is rolled back
ClaimCrash(w) ==
    /\ pc[w] = "claim_rail"
    /\ Return(w)
    /\ UNCHANGED <<now, txn, promo, payout, acct, tlog, whq, otherVars>>

-----------------------------------------------------------------------------
(* Expiry sweeps (tasks.expire_old_transactions) and admin cancel *)

\* the rows PaymentService.expire_old_transactions selects
ExpiredPending ==
    {t \in Txns : txn[t].status = "pending" /\ txn[t].expires_at < now}

\* the rows PromoLinkService.expire_old_promo_links touches
ExpiredLinks ==
    {t \in Txns : /\ ~promo[t].is_used
                  /\ promo[t].expires_at < now
                  /\ txn[t].status \in {"pending", "completed"}}

\* both sweeps set the selected rows to expired
Expire(rows) ==
    /\ rows # {}
    /\ txn' = [t \in Txns |-> IF t \in rows
                              THEN [txn[t] EXCEPT !.status = "expired"]
                              ELSE txn[t]]
    /\ UNCHANGED <<now, promo, payout, acct, pc, loc, whq, otherVars>>

\* the sweep of the transactions logs 'auto_expired' for each row
ExpireOldTransactions ==
    /\ Expire(ExpiredPending)
    /\ tlog' = [t \in Txns |-> IF t \in ExpiredPending
                               THEN [old_status |-> "", new_status |-> "expired"]
                               ELSE tlog[t]]

ExpireOldPromoLinks ==
    /\ Expire(ExpiredLinks)
    /\ UNCHANGED tlog

\* AdminTransactionViewSet.cancel
CancelRead(w, t) ==
    /\ Begin(w)
    /\ IF txn[t].status \notin {"pending", "processing"}
       THEN UNCHANGED <<pc, loc>>
       ELSE Load(w, t, "cancel_write")
    /\ UNCHANGED <<now, txn, promo, payout, acct, tlog, whq, otherVars>>

CancelWrite(w) ==
    /\ pc[w] = "cancel_write"
    /\ SaveStatus(w, "cancelled", loc[w].row)
    /\ Return(w)
    /\ UNCHANGED <<now, promo, payout, acct, tlog, whq, otherVars>>

Tick ==
    /\ now < MaxTime
    /\ now' = now + 1
    /\ UNCHANGED <<txn, promo, payout, acct, pc, loc, tlog, whq, otherVars>>

-----------------------------------------------------------------------------
(* Spec: the orchestration *)

\* the variables of the other specifications stay at these values
IdleMain ==
    /\ now = 0
    /\ txn = [t \in Txns |-> NoRow]
    /\ promo = [t \in Txns |-> [is_used |-> FALSE, expires_at |-> 0]]
    /\ payout = [t \in Txns |-> NoPayout]
    /\ tlog = [t \in Txns |-> NoLog]
    /\ whq = [t \in Txns |-> 0]
    /\ pc = [w \in Workers |-> "idle"]
    /\ loc = [w \in Workers |-> IdleLoc]

IdleEscrow ==
    /\ eobj = [w \in Workers |-> [type |-> "none", row |-> NoAccount]]
    /\ eres = [op |-> "none", amount |-> 0, before |-> NoAccount,
               after |-> NoAccount, ok |-> FALSE]

\* no Transaction row has been written, create_payment has not answered
NoStored == [converted_amount |-> 0, commission_rate |-> 0,
             commission_amount |-> 0, net_amount |-> 0, exists |-> FALSE,
             status |-> "none", promo_link |-> FALSE, log |-> FALSE,
             response |-> "none", error |-> "none"]

\* no CommissionSetting row
NoSettingRow == [exists |-> FALSE, rate |-> 0]

\* update_commission_setting has not been called
NoSetting == [rate |-> 0, before |-> NoSettingRow, row |-> NoSettingRow,
              response |-> "none"]

IdleCommission ==
    /\ cfg = [backend |-> "none"]
    /\ stored = NoStored
    /\ setting = NoSetting

IdleWebhook ==
    /\ wh = [delivered |-> FALSE, delivery_attempts |-> 0,
             scheduled |-> FALSE, next_retry |-> 0, last_attempt |-> 0]
    /\ wnow = 0
    /\ whist = <<>>

\* get_exchange_rate has not been called
NoExchange == [called |-> FALSE]

IdleExchange == xr = NoExchange

\* no run of send_provider_webhooks holds a row
NoRun == [active |-> FALSE]

IdleRuns == wrun = <<>>

\* no sweep is looked at
NoSweep == [runs |-> 0]

IdleSweep == sw = NoSweep

Init ==
    /\ now = 0
    /\ \E pairs \in [Txns -> CurrencyPairs] :
          txn = [t \in Txns |-> NewTransaction(pairs[t])]
    /\ promo = [t \in Txns |-> NewPromoLink(txn[t])]
    /\ payout = [t \in Txns |-> NoPayout]
    \* the 'created' row of create_payment
    /\ tlog = [t \in Txns |-> [old_status |-> "", new_status |-> "pending"]]
    /\ whq = [t \in Txns |-> 0]
    /\ acct = [k \in AccountTypes |-> NoAccount]
    /\ pc = [w \in Workers |-> "idle"]
    /\ loc = [w \in Workers |-> IdleLoc]
    /\ IdleEscrow
    /\ IdleCommission
    /\ IdleWebhook
    /\ IdleExchange
    /\ IdleRuns
    /\ IdleSweep

Next ==
    \/ \E w \in Workers, t \in Txns : FiatRead(w, t)
    \/ \E w \in Workers : FiatMarkProcessing(w)
    \/ \E w \in Workers, m \in {"stripe", "paypal"} : FiatFinish(w, m)
    \/ \E w \in Workers, t \in Txns : IntentRead(w, t)
    \/ \E w \in Workers, c \in BOOLEAN : IntentCreate(w, c)
    \/ \E w \in Workers, t \in Txns : ConfirmRead(w, t)
    \/ \E w \in Workers, c \in {"succeeded", "requires_action", "stripe_error"},
          k \in BOOLEAN : ConfirmCapture(w, c, k)
    \/ \E w \in Workers : ConfirmEscrowed(w)
    \/ \E w \in Workers : ConfirmReady(w)
    \/ \E w \in Workers, t \in Txns : CryptoRead(w, t)
    \/ \E w \in Workers : CryptoGenerateAddress(w)
    \/ \E w \in Workers : CryptoCheckDeposit(w)
    \/ \E w \in Workers : CryptoMoveToEscrow(w)
    \/ \E w \in Workers, t \in Txns : WebhookSucceededRead(w, t)
    \/ \E w \in Workers, k \in BOOLEAN : WebhookCapture(w, k)
    \/ \E t \in Txns : WebhookPaymentFailed(t)
    \/ \E t \in Txns : WebhookTransferCreated(t)
    \/ \E t \in Txns : WebhookPayoutPaid(t)
    \/ \E w \in Workers, t \in Txns, r \in Recipients : ClaimRead(w, t, r)
    \/ \E w \in Workers : ClaimMark(w)
    \/ \E w \in Workers, r \in {"ok", "stripe_error", "error"} : ClaimPayout(w, r)
    \/ \E w \in Workers : ClaimCrash(w)
    \/ ExpireOldTransactions
    \/ ExpireOldPromoLinks
    \/ \E w \in Workers, t \in Txns : CancelRead(w, t)
    \/ \E w \in Workers : CancelWrite(w)
    \/ Tick

Spec == Init /\ [][Next]_vars

-----------------------------------------------------------------------------
(* SpecRace: the card payment, fiat payment and claim handlers with a      *)
(* third worker, so that a handler can still hold the objects it loaded    *)
(* while two others have gone through payment and claim.  The clock        *)
(* stands still.                                                           *)

InitRace ==
    /\ now = 0
    /\ txn = [t \in Txns |-> NewTransaction(<<"USD", "USDT">>)]
    /\ promo = [t \in Txns |-> NewPromoLink(txn[t])]
    /\ payout = [t \in Txns |-> NoPayout]
    /\ tlog = [t \in Txns |-> [old_status |-> "", new_status |-> "pending"]]
    /\ whq = [t \in Txns |-> 0]
    /\ acct = [k \in AccountTypes |-> NoAccount]
    /\ pc = [w \in RaceWorkers |-> "idle"]
    /\ loc = [w \in RaceWorkers |-> IdleLoc]
    /\ IdleEscrow
    /\ IdleCommission
    /\ IdleWebhook
    /\ IdleExchange
    /\ IdleRuns
    /\ IdleSweep

NextRace ==
    \/ \E w \in RaceWorkers, t \in Txns : FiatRead(w, t)
    \/ \E w \in RaceWorkers : FiatMarkProcessing(w)
    \/ \E w \in RaceWorkers : FiatFinish(w, "stripe")
    \/ \E w \in RaceWorkers, t \in Txns : IntentRead(w, t)
    \/ \E w \in RaceWorkers : IntentCreate(w, TRUE)
    \/ \E w \in RaceWorkers, t \in Txns : ConfirmRead(w, t)
    \/ \E w \in RaceWorkers : ConfirmCapture(w, "succeeded", TRUE)
    \/ \E w \in RaceWorkers : ConfirmEscrowed(w)
    \/ \E w \in RaceWorkers : ConfirmReady(w)
    \/ \E w \in RaceWorkers, t \in Txns, r \in Recipients : ClaimRead(w, t, r)
    \/ \E w \in RaceWorkers : ClaimMark(w)
    \/ \E w \in RaceWorkers, r \in Rails : ClaimPayout(w, r)
    \/ \E t \in Txns : WebhookPayoutPaid(t)

SpecRace == InitRace /\ [][NextRace]_vars

-----------------------------------------------------------------------------
(* SpecEscrow: the EscrowAccount operations.  A worker fetches the account *)
(* row into an in-memory object, calls one method on it, and the method's  *)
(* save() writes the object's three balances back.                         *)

\* amounts passed to the operations, and the largest balance followed
Amounts == {30, 50}
MaxBalance == 50

NoObject == [type |-> "none", row |-> NoAccount]
NoResult == [op |-> "none", amount |-> 0, before |-> NoAccount,
             after |-> NoAccount, ok |-> FALSE]

\* reserve_funds without the check of available_balance
reserve_funds_unchecked(a, amount) ==
    <<TRUE, [a EXCEPT !.available_balance = @ - amount,
                      !.reserved_balance = @ + amount]>>

\* EscrowAccount.reserve_funds on object a: <<returned value, a afterwards>>
reserve_funds(a, amount) ==
    IF a.available_balance >= amount
    THEN <<TRUE, [a EXCEPT !.available_balance = @ - amount,
                           !.reserved_balance = @ + amount]>>
    ELSE <<FALSE, a>>

\* release_funds without the update of total_balance
release_funds_keeps_total(a, amount) ==
    IF a.reserved_balance >= amount
    THEN <<TRUE, [a EXCEPT !.reserved_balance = @ - amount]>>
    ELSE <<FALSE, a>>

\* release_funds without the check of reserved_balance
release_funds_unchecked(a, amount) ==
    <<TRUE, [a EXCEPT !.reserved_balance = @ - amount,
                      !.total_balance = @ - amount]>>

\* EscrowAccount.release_funds
release_funds(a, amount) ==
    IF a.reserved_balance >= amount
    THEN <<TRUE, [a EXCEPT !.reserved_balance = @ - amount,
                           !.total_balance = @ - amount]>>
    ELSE <<FALSE, a>>

\* return_funds that leaves reserved_balance as it is
return_funds_keeps_reserved(a, amount) ==
    IF a.reserved_balance >= amount
    THEN <<TRUE, [a EXCEPT !.available_balance = @ + amount]>>
    ELSE <<FALSE, a>>

\* EscrowAccount.return_funds
return_funds(a, amount) ==
    IF a.reserved_balance >= amount
    THEN <<TRUE, [a EXCEPT !.reserved_balance = @ - amount,
                           !.available_balance = @ + amount]>>
    ELSE <<FALSE, a>>

\* the variables of Spec, SpecCommission and SpecWebhook
notEscrowVars ==
    <<now, txn, promo, payout, tlog, whq, xr, wrun, sw, pc, loc, cfg, stored,
      setting, wh, wnow, whist>>

\* EscrowAccount.objects.get_or_create finds the row of account k
EscrowGet(w, k) ==
    /\ eobj[w].type = "none"
    /\ acct[k].exists
    /\ eobj' = [eobj EXCEPT ![w] = [type |-> k, row |-> get_or_create(acct[k])]]
    /\ UNCHANGED <<acct, eres, notEscrowVars>>

\* the worker's call ends: a method that returned True has saved the object
EscrowCall(w, op, amount, result) ==
    LET k == eobj[w].type
    IN /\ k # "none"
       /\ acct' = IF result[1] THEN [acct EXCEPT ![k] = result[2]] ELSE acct
       /\ eres' = [op |-> op, amount |-> amount, before |-> eobj[w].row,
                    after |-> result[2], ok |-> result[1]]
       /\ eobj' = [eobj EXCEPT ![w] = NoObject]
       /\ UNCHANGED notEscrowVars

\* "Add funds to escrow" and escrow_account.save() of _move_to_escrow
EscrowDeposit(w, amount) ==
    /\ eobj[w].row.total_balance + amount <= MaxBalance
    /\ EscrowCall(w, "deposit", amount, <<TRUE, AddFunds(eobj[w].row, amount)>>)

EscrowReserve(w, amount) ==
    EscrowCall(w, "reserve", amount, reserve_funds(eobj[w].row, amount))

EscrowRelease(w, amount) ==
    EscrowCall(w, "release", amount, release_funds(eobj[w].row, amount))

EscrowReturn(w, amount) ==
    EscrowCall(w, "return", amount, return_funds(eobj[w].row, amount))

\* one escrow account, of either type, is in use; it starts as get_or_create
\* makes it
InitEscrow ==
    /\ \E k \in AccountTypes :
          acct = [j \in AccountTypes |->
                     IF j = k THEN get_or_create(NoAccount) ELSE NoAccount]
    /\ IdleEscrow
    /\ IdleMain
    /\ IdleCommission
    /\ IdleWebhook
    /\ IdleExchange
    /\ IdleRuns
    /\ IdleSweep

NextEscrow ==
    \/ \E w \in Workers, k \in AccountTypes : EscrowGet(w, k)
    \/ \E w \in Workers, a \in Amounts : EscrowDeposit(w, a)
    \/ \E w \in Workers, a \in Amounts : EscrowReserve(w, a)
    \/ \E w \in Workers, a \in Amounts : EscrowRelease(w, a)
    \/ \E w \in Workers, a \in Amounts : EscrowReturn(w, a)

SpecEscrow == InitEscrow /\ [][NextEscrow]_vars

-----------------------------------------------------------------------------
(* SpecCommission: CommissionService on a configuration of settings, and   *)
(* the amounts a Transaction row holds afterwards.  Rates are in units of  *)
(* 0.0001; stored amounts in units of 0.00000001 (8 decimal places); the   *)
(* converted amount before storage carries one more decimal digit.         *)

\* the rate of the active CommissionSetting of each scope, the
\* commission_rate of a provider, and DEFAULT_COMMISSION_RATE
Rates == [provider_currency |-> 100, provider_only |-> 200, provider |-> 250,
          currency_only |-> 300, global |-> 400, default |-> 500]

\* an active setting of a scope exists or not
Setting(scope) == {[present |-> b, rate |-> Rates[scope]] : b \in BOOLEAN}

\* a provider_id is given or not; Provider.objects.get(id=provider_id,
\* is_active=True) finds a provider or not (unknown or inactive); its
\* commission_rate may be 0 (validate_commission_rate), and an update
\* through ProviderSerializer stores any value the column holds, such as 2
Providers == {[given |-> FALSE, active |-> FALSE, commission_rate |-> 0],
              [given |-> TRUE, active |-> FALSE, commission_rate |-> Rates.provider],
              [given |-> TRUE, active |-> TRUE, commission_rate |-> Rates.provider],
              [given |-> TRUE, active |-> TRUE, commission_rate |-> 0],
              [given |-> TRUE, active |-> TRUE, commission_rate |-> 20000]}

\* _get_commission_rate with a lookup that does not ask for is_active
get_commission_rate_any_provider(c) ==
    LET lower == IF c.currency_only.present THEN c.currency_only.rate
                 ELSE IF c.global.present THEN c.global.rate
                 ELSE Rates.default
    IN IF c.provider.given
       THEN IF c.provider_currency.present THEN c.provider_currency.rate
            ELSE IF c.provider_only.present THEN c.provider_only.rate
            ELSE IF c.provider.commission_rate # 0
            THEN c.provider.commission_rate
            ELSE lower
       ELSE lower

\* how the database rounds a value to the column's 8 decimal places:
\* half_even is Django's format_number, half_up is a NUMERIC column
Backends == {"half_even", "half_up"}

\* converted amounts (conversion_data['converted_amount']), in tenths of
\* the stored unit
ConvertedAmounts == {50, 15124, 15125, 100000}

\* CommissionService._get_commission_rate
get_commission_rate(c) ==
    LET lower == IF c.currency_only.present THEN c.currency_only.rate
                 ELSE IF c.global.present THEN c.global.rate
                 ELSE Rates.default
    IN IF c.provider.given /\ c.provider.active
       THEN IF c.provider_currency.present THEN c.provider_currency.rate
            ELSE IF c.provider_only.present THEN c.provider_only.rate
            ELSE IF c.provider.commission_rate # 0
            THEN c.provider.commission_rate
            ELSE lower
       ELSE lower

\* the integer nearest to num / den (den > 0), ties by the backend: away
\* from zero, or to the even neighbour
Round(num, den, backend) ==
    LET a == IF num < 0 THEN 0 - num ELSE num
        q == a \div den
        r == a % den
        m == IF 2 * r < den THEN q
             ELSE IF 2 * r > den THEN q + 1
             ELSE IF backend = "half_up" THEN q + 1
             ELSE IF q % 2 = 0 THEN q ELSE q + 1
    IN IF num < 0 THEN 0 - m ELSE m

\* calculate_commission and Transaction.objects.create of
\* _create_transaction: commission and net amount are computed unrounded,
\* each DecimalField(20, 8) column rounds what it is given; status takes
\* the column's default
StoredTransaction(conv, c) ==
    LET rate == get_commission_rate(c)
    IN [converted_amount |-> Round(conv, 10, c.backend),
        commission_rate |-> rate,
        commission_amount |-> Round(conv * rate, 100000, c.backend),
        net_amount |-> Round(conv * (10000 - rate), 100000, c.backend),
        exists |-> TRUE,
        status |-> "pending",
        promo_link |-> FALSE,
        log |-> FALSE,
        response |-> "none",
        error |-> "none"]

\* the str.replace calls of _generate_promo_code, each with its arguments
ReplaceCalls == << <<"0", "">>, <<"O", "">>, <<"1", "">>, <<"I">> >>

\* _generate_promo_code: str.replace takes the old and the new substring;
\* a call with fewer arguments raises TypeError before a code is drawn
generate_promo_code ==
    IF \E i \in 1..Len(ReplaceCalls) : Len(ReplaceCalls[i]) < 2
    THEN "TypeError"
    ELSE "code"

\* create_promo_link: the code is generated first; an exception is logged
\* and raised again
create_promo_link == generate_promo_code

\* the variables of Spec, SpecEscrow and SpecWebhook
notCommissionVars ==
    <<now, txn, promo, payout, tlog, whq, xr, wrun, sw, acct, pc, loc, eobj,
      eres, wh, wnow, whist>>

CreateTransaction(conv) ==
    /\ stored' = StoredTransaction(conv, cfg)
    /\ UNCHANGED <<cfg, setting, notCommissionVars>>

\* payment_data as create_payment meets it: the currencies are found
\* active or not, the amount lies within the limits or not, an exchange
\* rate can be had or not
Requests ==
    [from_currency : BOOLEAN, to_currency : BOOLEAN, amount : BOOLEAN,
     rate : BOOLEAN]

\* the body of the atomic block of create_payment: the rows it has written
\* when it ends, and the exception that ended it ("none": it returned)
create_payment_block(conv, c, req) ==
    IF ~req.from_currency \/ ~req.to_currency \/ ~req.amount \/ ~req.rate
    THEN [rows |-> NoStored, error |-> "ValueError"]
    ELSE IF create_promo_link = "TypeError"
    THEN [rows |-> StoredTransaction(conv, c), error |-> "TypeError"]
    ELSE [rows |-> [StoredTransaction(conv, c) EXCEPT !.promo_link = TRUE,
                                                       !.log = TRUE],
          error |-> "none"]

\* a block that commits what it has written however it ends
atomic_autocommit(before, block) ==
    block.rows

\* with transaction.atomic(): the rows of the block are kept when it
\* returns and dropped when an exception leaves it
atomic(before, block) ==
    IF block.error # "none" THEN before ELSE block.rows

\* create_payment: the exception is logged and raised to the caller
CreatePayment(conv, req) ==
    /\ LET block == create_payment_block(conv, cfg, req)
       IN stored' = [atomic(NoStored, block) EXCEPT
                        !.response = IF block.error # "none" THEN "raised"
                                     ELSE "created",
                        !.error = block.error]
    /\ UNCHANGED <<cfg, setting, notCommissionVars>>

\* MAX_COMMISSION_RATE, in units of 0.0001
max_rate == 1000

\* rates given to update_commission_setting, in tenths of the unit of the
\* rate column (DecimalField(5, 4))
SettingRates ==
    {-10, -5, -1, 0, 4, 5, 15, 500, 10 * max_rate - 5, 10 * max_rate - 4,
     10 * max_rate, 10 * max_rate + 1, 10 * max_rate + 5, 20 * max_rate}

\* setting_data: the rate; an id is given (update) or not (create); a
\* currency_code / provider_id is absent, found active, or not found; the
\* new row repeats the (currency, provider) of an existing one or not
SettingData ==
    [rate : SettingRates, id : BOOLEAN,
     currency : {"none", "active", "missing"},
     provider : {"none", "active", "missing"},
     duplicate : BOOLEAN]

\* the rate test without its lower limit
rate_out_of_range_upper_only(rate) ==
    rate > 10 * max_rate

\* "Validate rate"
rate_out_of_range(rate) ==
    rate < 0 \/ rate > 10 * max_rate

\* update_commission_setting: the CommissionSetting row afterwards and the
\* exception raised ("none": the setting is returned); the rate column
\* rounds what it is given
update_commission_setting(row, data, backend) ==
    IF rate_out_of_range(data.rate)
    THEN [row |-> row, error |-> "ValueError"]
    ELSE IF data.currency = "missing" \/ data.provider = "missing"
    THEN [row |-> row, error |-> "ValueError"]
    ELSE IF data.id
    THEN IF row.exists
         THEN [row |-> [exists |-> TRUE,
                        rate |-> IF data.rate >= 0
                                 THEN Round(data.rate, 10, backend)
                                 ELSE 0 - Round(0 - data.rate, 10, backend)],
               error |-> "none"]
         ELSE [row |-> row, error |-> "ValueError"]
    ELSE IF data.duplicate
    THEN [row |-> row, error |-> "IntegrityError"]
    ELSE [row |-> [exists |-> TRUE,
                   rate |-> IF data.rate >= 0
                            THEN Round(data.rate, 10, backend)
                            ELSE 0 - Round(0 - data.rate, 10, backend)],
          error |-> "none"]

\* the variables SpecCommission leaves to its other actions
notSettingVars == <<cfg, stored, notCommissionVars>>

UpdateCommissionSetting(data) ==
    /\ LET r == update_commission_setting(setting.row, data, cfg.backend)
       IN setting' = [rate |-> data.rate, before |-> setting.row,
                      row |-> r.row, response |-> r.error]
    /\ UNCHANGED notSettingVars

InitCommission ==
    /\ cfg \in [backend : Backends,
                provider : Providers,
                provider_currency : Setting("provider_currency"),
                provider_only : Setting("provider_only"),
                currency_only : Setting("currency_only"),
                global : Setting("global")]
    /\ stored = NoStored
    /\ setting = NoSetting
    /\ acct = [k \in AccountTypes |-> NoAccount]
    /\ IdleMain
    /\ IdleEscrow
    /\ IdleWebhook
    /\ IdleExchange
    /\ IdleRuns
    /\ IdleSweep

NextCommission ==
    \/ \E conv \in ConvertedAmounts : CreateTransaction(conv)
    \/ \E conv \in ConvertedAmounts, req \in Requests : CreatePayment(conv, req)

SpecCommission == InitCommission /\ [][NextCommission]_vars

-----------------------------------------------------------------------------
(* SpecSetting: calls of CommissionService.update_commission_setting on    *)
(* the CommissionSetting row it has written, under either rounding of the  *)
(* rate column.                                                            *)

InitSetting ==
    /\ cfg \in [backend : Backends]
    /\ stored = NoStored
    /\ setting = NoSetting
    /\ acct = [k \in AccountTypes |-> NoAccount]
    /\ IdleMain
    /\ IdleEscrow
    /\ IdleWebhook
    /\ IdleExchange
    /\ IdleRuns
    /\ IdleSweep

NextSetting == \E data \in SettingData : UpdateCommissionSetting(data)

SpecSetting == InitSetting /\ [][NextSetting]_vars

-----------------------------------------------------------------------------
(* SpecExchange: one call of ExchangeRateService.get_exchange_rate for     *)
(* every combination of cache, stored rate and provider answers.  Rates    *)
(* are in units of 0.01; the rate 0 stands for None as well, which the     *)
(* code does not tell apart (`if rate:`).                                  *)

\* Decimal('1.0')
SameCurrencyRate == 100

\* an HTTP answer: status 200 with a price, or anything else
Answers == {[ok |-> FALSE, price |-> 0], [ok |-> TRUE, price |-> 0],
            [ok |-> TRUE, price |-> 200]}

\* cache.get / the newest ExchangeRate row of the last ten minutes
Kept == {[ok |-> FALSE, price |-> 0], [ok |-> TRUE, price |-> 400]}

ExchangeInputs ==
    [same : BOOLEAN, crypto : BOOLEAN, cached : Kept, recent : Kept,
     binance : Answers, binance_reverse : Answers,
     coingecko_id : BOOLEAN, coingecko : Answers]

\* _fetch_binance_rate: the pair, then the reverse pair; a price of 0 for
\* the reverse pair raises in the division and None is returned
fetch_binance_rate(i) ==
    IF i.binance.ok
    THEN [rate |-> i.binance.price, consulted |-> <<"binance">>]
    ELSE [rate |-> IF i.binance_reverse.ok /\ i.binance_reverse.price # 0
                   THEN (SameCurrencyRate * SameCurrencyRate)
                           \div i.binance_reverse.price
                   ELSE 0,
          consulted |-> <<"binance", "binance">>]

\* _fetch_coingecko_rate: no request for a currency without CoinGecko id
fetch_coingecko_rate(i) ==
    IF ~i.coingecko_id THEN [rate |-> 0, consulted |-> <<>>]
    ELSE [rate |-> IF i.coingecko.ok THEN i.coingecko.price ELSE 0,
          consulted |-> <<"coingecko">>]

\* _fetch_rate_from_apis asking CoinGecko first
fetch_rate_from_apis_coingecko_first(i) ==
    LET c == fetch_coingecko_rate(i)
        b == fetch_binance_rate(i)
    IN IF c.rate # 0 THEN c
       ELSE IF i.crypto
       THEN [rate |-> b.rate, consulted |-> c.consulted \o b.consulted]
       ELSE c

\* _fetch_rate_from_apis
fetch_rate_from_apis(i) ==
    LET b == fetch_binance_rate(i)
        c == fetch_coingecko_rate(i)
    IN IF i.crypto /\ b.rate # 0 THEN b
       ELSE IF i.crypto
       THEN [rate |-> c.rate, consulted |-> b.consulted \o c.consulted]
       ELSE c

\* get_exchange_rate: the rate returned or the exception raised, the
\* requests made, and the ExchangeRate row created (rows = 0: none)
get_exchange_rate(i) ==
    LET f == fetch_rate_from_apis(i)
        answer(rate, consulted, rows) ==
            [rate |-> rate, error |-> "none", consulted |-> consulted,
             rows |-> rows, row_rate |-> IF rows = 0 THEN 0 ELSE rate]
    IN IF i.same THEN answer(SameCurrencyRate, <<>>, 0)
       ELSE IF i.cached.ok THEN answer(i.cached.price, <<>>, 0)
       ELSE IF i.recent.ok THEN answer(i.recent.price, <<>>, 0)
       ELSE IF f.rate # 0 THEN answer(f.rate, f.consulted, 1)
       ELSE [rate |-> 0, error |-> "ValueError", consulted |-> f.consulted,
             rows |-> 0, row_rate |-> 0]

\* the variables of the other specifications
notExchangeVars ==
    <<now, txn, promo, payout, tlog, whq, wrun, sw, acct, pc, loc, eobj, eres,
      cfg, stored, setting, wh, wnow, whist>>

GetExchangeRate ==
    /\ ~xr.called
    /\ xr' = [called |-> TRUE, in |-> xr.in, out |-> get_exchange_rate(xr.in)]
    /\ UNCHANGED notExchangeVars

InitExchange ==
    /\ xr \in {[called |-> FALSE, in |-> i] : i \in ExchangeInputs}
    /\ acct = [k \in AccountTypes |-> NoAccount]
    /\ IdleMain
    /\ IdleEscrow
    /\ IdleCommission
    /\ IdleWebhook
    /\ IdleRuns
    /\ IdleSweep

NextExchange == GetExchangeRate

SpecExchange == InitExchange /\ [][NextExchange]_vars

-----------------------------------------------------------------------------
(* SpecWebhook: one ProviderWebhook row and the send_provider_webhooks     *)
(* task, which the beat schedule runs every TaskPeriod seconds.            *)

\* 'send-webhooks' schedule, in seconds
TaskPeriod == 300
\* delivery_attempts__lt of the task's filter
MaxAttempts == 5
\* the clock stops here
MaxWebhookTime == 15000

\* retry_delays of mark_failed
retry_delays == <<300, 900, 1800, 3600, 7200>>

\* the task's filter: delivered=False, delivery_attempts__lt=5,
\* next_retry__lte=now (a null next_retry never matches)
Pending(row, t) ==
    /\ ~row.delivered
    /\ row.delivery_attempts < MaxAttempts
    /\ row.scheduled
    /\ row.next_retry <= t

\* ProviderWebhook.mark_delivered
mark_delivered(row, t) == [row EXCEPT !.delivered = TRUE]

\* ProviderWebhook.mark_failed
mark_failed(row, t) ==
    LET n == row.delivery_attempts + 1
        counted == [row EXCEPT !.delivery_attempts = n, !.last_attempt = t]
    IN IF n <= Len(retry_delays)
       THEN [counted EXCEPT !.scheduled = TRUE,
                            !.next_retry = t + retry_delays[n]]
       ELSE counted

\* the variables of Spec, SpecEscrow and SpecCommission
notWebhookVars ==
    <<now, txn, promo, payout, tlog, whq, xr, wrun, sw, acct, pc, loc, eobj,
      eres, cfg, stored, setting>>

\* the beat fires: the task runs at the next multiple of TaskPeriod
Beat ==
    /\ wnow + TaskPeriod <= MaxWebhookTime
    /\ wnow' = wnow + TaskPeriod
    /\ UNCHANGED notWebhookVars

\* a delivery after a failure is a retry: how long after that failure
Attempted ==
    whist' = IF wh.delivery_attempts > 0
             THEN Append(whist, wnow' - wh.last_attempt)
             ELSE whist

\* the run finds the row pending and the provider answers 2xx
SendDelivered ==
    /\ Beat
    /\ Pending(wh, wnow')
    /\ wh' = mark_delivered(wh, wnow')
    /\ Attempted

\* the run finds the row pending and the delivery fails
SendFailed ==
    /\ Beat
    /\ Pending(wh, wnow')
    /\ wh' = mark_failed(wh, wnow')
    /\ Attempted

\* the run does not select the row
SendNothing ==
    /\ Beat
    /\ ~Pending(wh, wnow')
    /\ UNCHANGED <<wh, whist>>

\* a row as the model's fields default, or one made due at creation
InitWebhook ==
    /\ wh \in [delivered : {FALSE}, delivery_attempts : {0},
               scheduled : BOOLEAN, next_retry : {0}, last_attempt : {0}]
    /\ wnow = 0
    /\ whist = <<>>
    /\ acct = [k \in AccountTypes |-> NoAccount]
    /\ IdleMain
    /\ IdleEscrow
    /\ IdleCommission
    /\ IdleExchange
    /\ IdleRuns
    /\ IdleSweep

NextWebhook == SendDelivered \/ SendFailed \/ SendNothing

SpecWebhook == InitWebhook /\ [][NextWebhook]_vars

\* the beat keeps firing: the task is run again and again
SpecWebhookFair == SpecWebhook /\ WF_vars(NextWebhook)

-----------------------------------------------------------------------------
(* SpecWebhookRuns: the same row with runs of send_provider_webhooks that  *)
(* may overlap: the beat sends the task every TaskPeriod seconds whether   *)
(* or not the run before has returned, and a run lasts as long as its      *)
(* requests.post calls do.                                                 *)

\* runs of the task that can be under way at once
NumRuns == 2
Runs == 1..NumRuns

\* the variables of the other specifications
notRunsVars ==
    <<now, txn, promo, payout, tlog, whq, xr, sw, acct, pc, loc, eobj, eres,
      cfg, stored, setting, whist>>

\* the beat fires and run r evaluates the task's query: it holds the row
\* as it is stored now
RunSelect(r) ==
    /\ ~wrun[r].active
    /\ wnow + TaskPeriod <= MaxWebhookTime
    /\ wnow' = wnow + TaskPeriod
    /\ wrun' = IF Pending(wh, wnow')
               THEN [wrun EXCEPT ![r] = [active |-> TRUE, row |-> wh]]
               ELSE wrun
    /\ UNCHANGED <<wh, notRunsVars>>

\* the provider answers 2xx to run r: mark_delivered saves r's object
RunDelivered(r) ==
    /\ wrun[r].active
    /\ wh' = mark_delivered(wrun[r].row, wnow)
    /\ wrun' = [wrun EXCEPT ![r] = NoRun]
    /\ UNCHANGED <<wnow, notRunsVars>>

\* the delivery of run r fails: mark_failed saves r's object
RunFailed(r) ==
    /\ wrun[r].active
    /\ wh' = mark_failed(wrun[r].row, wnow)
    /\ wrun' = [wrun EXCEPT ![r] = NoRun]
    /\ UNCHANGED <<wnow, notRunsVars>>

InitRuns ==
    /\ wh \in [delivered : {FALSE}, delivery_attempts : {0},
               scheduled : BOOLEAN, next_retry : {0}, last_attempt : {0}]
    /\ wnow = 0
    /\ whist = <<>>
    /\ wrun = [r \in Runs |-> NoRun]
    /\ acct = [k \in AccountTypes |-> NoAccount]
    /\ IdleMain
    /\ IdleEscrow
    /\ IdleCommission
    /\ IdleExchange
    /\ IdleSweep

NextRuns == \E r \in Runs : RunSelect(r) \/ RunDelivered(r) \/ RunFailed(r)

SpecWebhookRuns == InitRuns /\ [][NextRuns]_vars

-----------------------------------------------------------------------------
(* SpecSweep: PaymentService.expire_old_transactions run on its own, twice *)
(* in a row at one clock reading, over every small table of transactions.  *)

\* transactions in the table, and runs of the sweep
NumSweepTxns == 2
MaxSweeps == 2
SweepTxns == 1..NumSweepTxns

\* the statuses the rows of the table are drawn from
SweepStatuses == {"pending", "escrowed", "completed"}

\* a table: the Transaction rows, the number of TransactionLog rows and
\* the PromoLink of each, one EscrowAccount, the clock, and what the last
\* run returned
SweepTables ==
    [runs : {0},
     now : 0..MaxTime,
     rows : [SweepTxns -> [status : SweepStatuses, expires_at : 0..MaxTime]],
     logs : [SweepTxns -> {0}],
     links : [SweepTxns -> [is_used : BOOLEAN]],
     account : {[total_balance |-> 0], [total_balance |-> NetAmount]},
     returned : {0}]

\* expire_old_transactions with a filter on expires_at only
expire_old_transactions_any_status(s) ==
    LET expired == {t \in SweepTxns : s.rows[t].expires_at < s.now}
    IN [s EXCEPT
          !.rows = [t \in SweepTxns |->
                       IF t \in expired
                       THEN [s.rows[t] EXCEPT !.status = "expired"]
                       ELSE s.rows[t]],
          !.logs = [t \in SweepTxns |->
                       IF t \in expired THEN s.logs[t] + 1 ELSE s.logs[t]],
          !.returned = Cardinality(expired)]

\* PaymentService.expire_old_transactions: the table afterwards
expire_old_transactions(s) ==
    LET expired == {t \in SweepTxns : /\ s.rows[t].status = "pending"
                                      /\ s.rows[t].expires_at < s.now}
    IN [s EXCEPT
          !.rows = [t \in SweepTxns |->
                       IF t \in expired
                       THEN [s.rows[t] EXCEPT !.status = "expired"]
                       ELSE s.rows[t]],
          !.logs = [t \in SweepTxns |->
                       IF t \in expired THEN s.logs[t] + 1 ELSE s.logs[t]],
          !.returned = Cardinality(expired)]

\* the variables of the other specifications
notSweepVars ==
    <<now, txn, promo, payout, tlog, whq, xr, wrun, acct, pc, loc, eobj, eres,
      cfg, stored, setting, wh, wnow, whist>>

\* one run of the sweep
ExpireSweep ==
    /\ sw.runs < MaxSweeps
    /\ sw' = [expire_old_transactions(sw) EXCEPT !.runs = sw.runs + 1]
    /\ UNCHANGED notSweepVars

InitSweep ==
    /\ sw \in SweepTables
    /\ acct = [k \in AccountTypes |-> NoAccount]
    /\ IdleMain
    /\ IdleEscrow
    /\ IdleCommission
    /\ IdleWebhook
    /\ IdleExchange
    /\ IdleRuns

NextSweep == ExpireSweep

SpecSweep == InitSweep /\ [][NextSweep]_vars

-----------------------------------------------------------------------------
(* Properties *)

\* C1: a PromoLink is successfully claimed at most once: a claim that
\* claim_promo_link lets succeed (it has validated the link and marks it
\* used) finds the stored link unused, so that of two concurrent claims of
\* one code the second fails (checked under Spec)
ClaimedAtMostOnce ==
    [][\A w \in Workers :
          ClaimMark(w) => ~promo[loc[w].t].is_used]_vars

OnlyAllowedTransitions ==
    [][\A t \in Txns :
          txn'[t].status # txn[t].status
             => <<txn[t].status, txn'[t].status>> \in AllowedTransitions]_vars

\* C4: a request for a transition whose source set does not hold the
\* current status leaves the stored status as it is: the payment-failed
\* notification (to failed, from payment_processing only) changes nothing
\* when the transaction is in another status, such as completed (checked
\* under Spec)
ConflictLeavesStatus ==
    [][\A t \in Txns :
          (WebhookPaymentFailed(t) /\ txn[t].status # "payment_processing")
             => txn'[t].status = txn[t].status]_vars

\* C5: a repeated deposit-confirmed check for a transaction that is
\* already escrowed is a no-op: it changes neither the transaction nor
\* the escrow accounts (checked under Spec)
RepeatedConfirmationIsNoOp ==
    [][\A w \in Workers :
          (/\ CryptoCheckDeposit(w)
           /\ loc[w].row.status = "escrowed"
           /\ txn[loc[w].t].status = "escrowed")
             => UNCHANGED <<txn, acct>>]_vars

\* what the precedence of C6 gives: the highest level present, where an
\* active provider always has its own default rate
ResolveByPrecedence(c) ==
    IF c.provider.active /\ c.provider_currency.present
    THEN c.provider_currency.rate
    ELSE IF c.provider.active /\ c.provider_only.present
    THEN c.provider_only.rate
    ELSE IF c.provider.active THEN c.provider.commission_rate
    ELSE IF c.currency_only.present THEN c.currency_only.rate
    ELSE IF c.global.present THEN c.global.rate
    ELSE Rates.default

\* C6: the commission rate of a transaction is the rate of the highest
\* precedence level present: provider+currency, provider-only, the
\* provider's own rate, currency-only, global, default (checked under
\* SpecCommission)
RateFollowsPrecedence ==
    stored.exists => stored.commission_rate = ResolveByPrecedence(cfg)

\* C7: a stored Transaction has commission_amount + net_amount equal to
\* converted_amount exactly (checked under SpecCommission)
NoRoundingDrift ==
    stored.exists =>
        stored.commission_amount + stored.net_amount = stored.converted_amount

\* whist is the beginning of the backoff sequence
IsPrefix(a, b) == Len(a) <= Len(b) /\ \A i \in 1..Len(a) : a[i] = b[i]

\* C8: the retry after the k-th failure comes retry_delays[k] later, for
\* each of the five entries: the retries made follow the sequence, and no
\* run of the task leaves behind an undelivered row with at most five
\* failures whose scheduled retry is due (checked under SpecWebhook)
RetriesFollowSchedule ==
    /\ IsPrefix(whist, retry_delays)
    /\ ~(/\ ~wh.delivered
         /\ wh.delivery_attempts \in 1..Len(retry_delays)
         /\ wh.next_retry <= wnow)

\* C9: reserve_funds returns True exactly when available_balance >= amount;
\* a failed call leaves the three balances as they were, a successful one
\* moves amount from available to reserved and keeps total_balance
\* (checked under SpecEscrow)
ReserveContract ==
    eres.op = "reserve" =>
        /\ eres.ok = (eres.before.available_balance >= eres.amount)
        /\ ~eres.ok => eres.after = eres.before
        /\ eres.ok =>
              /\ eres.after.available_balance =
                    eres.before.available_balance - eres.amount
              /\ eres.after.reserved_balance =
                    eres.before.reserved_balance + eres.amount
              /\ eres.after.total_balance = eres.before.total_balance

\* C9 witness: the account is at (available 20, reserved 30), which only
\* reserve(30) from (50, 0) produces, and a further reserve(30) has failed
ReserveContractWitness ==
    /\ eres = [op |-> "reserve", amount |-> 30, ok |-> FALSE,
               before |-> [exists |-> TRUE, total_balance |-> 50,
                           available_balance |-> 20, reserved_balance |-> 30],
               after |-> [exists |-> TRUE, total_balance |-> 50,
                          available_balance |-> 20, reserved_balance |-> 30]]
    /\ \E k \in AccountTypes :
          acct[k] = [exists |-> TRUE, total_balance |-> 50,
                     available_balance |-> 20, reserved_balance |-> 30]

\* C10: a claim that fails leaves is_used as it was before the call: when
\* process_promo_claim_with_payout answers NOT_READY or PAYOUT_ERROR for a
\* link that is unused, the link is unused afterwards (checked under Spec)
FailedClaimKeepsIsUsed ==
    [][\A w \in Workers :
          (ClaimMark(w) /\ pc'[w] = "idle" /\ ~promo[loc[w].t].is_used)
             => ~promo'[loc[w].t].is_used]_vars

\* C11: create_payment on a valid request (none of its validations has
\* raised ValueError) answers with a created Transaction: the row is stored
\* with status pending, commission_amount = converted_amount x rate and
\* net_amount = converted_amount - commission_amount, and a promo code was
\* issued (checked under SpecCommission)
CreatePaymentSucceeds ==
    (stored.response # "none" /\ stored.error # "ValueError") =>
        /\ stored.response = "created"
        /\ stored.exists
        /\ stored.status = "pending"
        /\ stored.commission_amount * 10000 =
              stored.converted_amount * stored.commission_rate
        /\ stored.net_amount = stored.converted_amount - stored.commission_amount

\* C12: completed, expired, cancelled, failed and refunded are terminal: no
\* step changes the status of a Transaction that is in one of them (checked
\* under Spec)
TerminalIsFinal ==
    [][\A t \in Txns :
          txn[t].status \in TerminalStates
             => txn'[t].status = txn[t].status]_vars

\* C13: every change of a Transaction's status writes a TransactionLog row
\* that records it: after a step that changes the status, the newest row of
\* the transaction has the status before the step as old_status and the
\* status after it as new_status (checked under Spec)
StatusChangesAreLogged ==
    [][\A t \in Txns :
          txn'[t].status # txn[t].status
             => tlog'[t] = [old_status |-> txn[t].status,
                            new_status |-> txn'[t].status]]_vars

\* C14: release_funds returns True exactly when reserved_balance >= amount;
\* a failed call leaves the three balances as they were, a successful one
\* takes amount off reserved_balance and off total_balance and keeps
\* available_balance (checked under SpecEscrow)
ReleaseContract ==
    eres.op = "release" =>
        /\ eres.ok = (eres.before.reserved_balance >= eres.amount)
        /\ ~eres.ok => eres.after = eres.before
        /\ eres.ok =>
              /\ eres.after.reserved_balance =
                    eres.before.reserved_balance - eres.amount
              /\ eres.after.total_balance =
                    eres.before.total_balance - eres.amount
              /\ eres.after.available_balance = eres.before.available_balance

\* C14 witness: from (total 50, available 20, reserved 30) a release of
\* 30 has succeeded and the row is at (20, 20, 0)
ReleaseContractWitness ==
    /\ eres.op = "release"
    /\ eres.amount = 30
    /\ eres.ok
    /\ eres.before = [exists |-> TRUE, total_balance |-> 50,
                      available_balance |-> 20, reserved_balance |-> 30]
    /\ \E k \in AccountTypes :
          acct[k] = [exists |-> TRUE, total_balance |-> 20,
                     available_balance |-> 20, reserved_balance |-> 0]

\* C15: return_funds returns True exactly when reserved_balance >= amount;
\* a failed call leaves the balances as they were, a successful one moves
\* amount from reserved to available and keeps total_balance; returning
\* the amount of a successful reserve gives back the balances the reserve
\* started from (checked under SpecEscrow)
ReturnContract ==
    /\ eres.op = "return" =>
          /\ eres.ok = (eres.before.reserved_balance >= eres.amount)
          /\ ~eres.ok => eres.after = eres.before
          /\ eres.ok =>
                /\ eres.after.reserved_balance =
                      eres.before.reserved_balance - eres.amount
                /\ eres.after.available_balance =
                      eres.before.available_balance + eres.amount
                /\ eres.after.total_balance = eres.before.total_balance
    /\ (eres.op = "reserve" /\ eres.ok) =>
          return_funds(eres.after, eres.amount) = <<TRUE, eres.before>>

\* C15 witness: the amount reserved from (50, 50, 0) has been returned from
\* (50, 20, 30) and the row is back at (50, 50, 0)
ReturnContractWitness ==
    /\ eres.op = "return"
    /\ eres.amount = 30
    /\ eres.ok
    /\ eres.before = [exists |-> TRUE, total_balance |-> 50,
                      available_balance |-> 20, reserved_balance |-> 30]
    /\ \E k \in AccountTypes :
          acct[k] = [exists |-> TRUE, total_balance |-> 50,
                     available_balance |-> 50, reserved_balance |-> 0]

\* C16: operations on one account are serial: no deposit is made on a
\* balance that another call has changed since it was read, so every
\* deposit of an amount raises the stored total_balance and
\* available_balance by that amount (checked under SpecEscrow)
DepositsAreNotLost ==
    [][\A w \in Workers, a \in Amounts :
          EscrowDeposit(w, a) =>
             /\ acct'[eobj[w].type].total_balance =
                   acct[eobj[w].type].total_balance + a
             /\ acct'[eobj[w].type].available_balance =
                   acct[eobj[w].type].available_balance + a]_vars

\* C17: validation of a link answers ALREADY_USED if the link is used,
\* otherwise EXPIRED if it is past its expiry, otherwise invalid state if
\* the owning transaction is not in ready_for_claim, the status from which
\* the claim transition is allowed, and valid only when none of these
\* holds (checked under Spec)
ValidateReportsState ==
    \A t \in Txns :
        validate_promo_link(promo[t], txn[t]) =
            IF promo[t].is_used THEN "ALREADY_USED"
            ELSE IF is_expired(promo[t]) THEN "EXPIRED"
            ELSE IF <<txn[t].status, "claim_processing">> \notin AllowedTransitions
            THEN "INVALID_TRANSACTION"
            ELSE "VALID"

\* C18: is_used only goes from false to true, except for the rollback
\* after a failed payout; the rollback never clears the is_used of a link
\* whose PayoutRequest is completed or whose transaction is completed
\* (checked under SpecRace)
NoResetAfterCompletion ==
    [][\A t \in Txns :
          (promo[t].is_used /\ ~promo'[t].is_used) =>
             /\ \E w \in DOMAIN pc, r \in Rails :
                   /\ ClaimPayout(w, r)
                   /\ loc[w].t = t
                   /\ ~PayoutSucceeded(payout'[t])
             /\ payout[t].status # "completed"
             /\ txn[t].status # "completed"]_vars

\* C19: a PayoutRequest is created only by a worker that has claimed the
\* link and found its transaction ready for claim, and only for a link
\* that has no PayoutRequest yet, also when the attempt follows a rollback
\* (checked under SpecRace)
PayoutRequestOncePerClaimedLink ==
    [][/\ \A w \in DOMAIN pc, r \in Rails :
             ClaimPayout(w, r) => payout[loc[w].t].status = "none"
       /\ \A t \in Txns :
             (payout[t].status = "none" /\ payout'[t].status # "none") =>
                \E w \in DOMAIN pc, r \in Rails :
                   /\ ClaimPayout(w, r)
                   /\ loc[w].t = t
                   /\ loc[w].row.status = "ready_for_claim"]_vars

\* C19 witness: the payout of a claim has failed and was rolled back, the
\* link is unused again and keeps its failed PayoutRequest, and another
\* claim attempt of the same link is past its validation
SecondAttemptAfterRollback ==
    \E w \in DOMAIN pc :
        /\ pc[w] = "claim_mark"
        /\ payout[loc[w].t].status = "failed"
        /\ ~promo[loc[w].t].is_used
        /\ txn[loc[w].t].status = "ready_for_claim"

\* C20: the PayoutRequest is stored with status pending before the rail is
\* called: after a worker has died during the call of the rail, a pending
\* PayoutRequest of its link is present (checked under Spec)
CrashLeavesPendingPayoutRequest ==
    [][\A w \in DOMAIN pc :
          ClaimCrash(w) => payout'[loc[w].t].status = "pending"]_vars

\* C21: when the rail accepts the payout, the PayoutRequest goes to
\* processing or completed and the payout amount is released from escrow:
\* reserved_balance and total_balance of an escrow account go down by the
\* amount (checked under Spec)
AcceptedPayoutReleasesEscrow ==
    [][\A w \in DOMAIN pc, r \in Rails :
          (ClaimPayout(w, r) /\ PayoutSucceeded(payout'[loc[w].t])) =>
             /\ payout'[loc[w].t].status \in {"processing", "completed"}
             /\ \E k \in AccountTypes :
                   /\ acct'[k].reserved_balance =
                         acct[k].reserved_balance - NetAmount
                   /\ acct'[k].total_balance =
                         acct[k].total_balance - NetAmount]_vars

\* C22: whenever the dispatch of a payout fails, the PayoutRequest ends in
\* failed with a failure_reason, is_used of the link is cleared and the
\* transaction is back in ready_for_claim (checked under Spec)
FailedPayoutIsRecorded ==
    [][\A w \in DOMAIN pc, r \in Rails :
          (ClaimPayout(w, r) /\ ~PayoutSucceeded(payout'[loc[w].t])) =>
             /\ payout'[loc[w].t].status = "failed"
             /\ payout'[loc[w].t].failure_reason
             /\ ~promo'[loc[w].t].is_used
             /\ txn'[loc[w].t].status = "ready_for_claim"]_vars

\* C23: no payment or claim handler takes up a pending or ready_for_claim
\* transaction that is past its expires_at, whether or not the sweep has
\* stored the expiry (checked under Spec)
ExpiryIsCheckedOnRead ==
    [][\A w \in DOMAIN pc :
          (/\ pc[w] = "idle"
           /\ pc'[w] \in {"fiat_processing", "intent_create", "confirm_capture",
                          "crypto_address", "crypto_check", "claim_mark"}
           /\ txn[loc'[w].t].status \in {"pending", "ready_for_claim"}) =>
             ~is_expired(txn[loc'[w].t])]_vars

\* C24: the expires_at of a Transaction is the one set at its creation,
\* and the expires_at of its PromoLink equals it (checked under Spec)
ExpiresAtIsImmutable ==
    \A t \in Txns :
        /\ txn[t].expires_at = txn[t].created_at + ExpiryTime
        /\ promo[t].expires_at = txn[t].expires_at

\* C24 witness: a transaction that was saved by several handlers, the last
\* of them after its expiry, with a link that was claimed
ExpiresAtIsImmutableWitness ==
    \E t \in Txns :
        /\ now > txn[t].expires_at
        /\ txn[t].status = "completed"
        /\ txn[t].stripe_payment_intent_id
        /\ promo[t].is_used

\* C25: create_payment creates a Transaction and its PromoLink together:
\* after a call a Transaction is stored exactly if its PromoLink is, and a
\* call in which any step failed has stored no Transaction, no PromoLink
\* and no TransactionLog (checked under SpecCommission)
CreatePaymentIsAtomic ==
    stored.response # "none" =>
        /\ stored.exists <=> stored.promo_link
        /\ stored.response = "raised" =>
              ~stored.exists /\ ~stored.promo_link /\ ~stored.log

\* C25 witness: the call failed at the issue of the promo code, after the
\* Transaction was created, and nothing is stored
CreatePaymentIsAtomicWitness ==
    /\ stored.response = "raised"
    /\ stored.error = "TypeError"
    /\ ~stored.exists

\* C26: update_commission_setting with a rate below 0 or above the maximum
\* raises an error and writes nothing, and the rate of a row written
\* through it lies in [0, max_rate] (checked under SpecSetting)
OutOfRangeRateIsRejected ==
    setting.response # "none" =>
        /\ (setting.rate < 0 \/ setting.rate > 10 * max_rate) =>
              /\ setting.response = "ValueError"
              /\ setting.row = setting.before
        /\ setting.row.exists =>
              (setting.row.rate >= 0 /\ setting.row.rate <= max_rate)

\* C26 witness: a row with a rate in the range exists and the update of it
\* to a rate just above the maximum was refused
OutOfRangeRateIsRejectedWitness ==
    /\ setting.rate = 10 * max_rate + 1
    /\ setting.response = "ValueError"
    /\ setting.before.exists
    /\ setting.row = setting.before

\* C27: the commission rate is resolved for every configuration: with a
\* provider id that is unknown or inactive the rate is the one resolved
\* without a provider (currency setting, else global setting, else the
\* default), and with no setting of any scope and no provider it is the
\* system default (checked under SpecCommission)
ResolutionIsTotal ==
    stored.exists =>
        /\ stored.commission_rate \in
              {Rates[s] : s \in DOMAIN Rates} \cup {cfg.provider.commission_rate}
        /\ ~cfg.provider.active =>
              stored.commission_rate =
                 IF cfg.currency_only.present THEN cfg.currency_only.rate
                 ELSE IF cfg.global.present THEN cfg.global.rate
                 ELSE Rates.default

\* C27 witness: a transaction created for an inactive provider that has
\* provider settings, with no currency or global setting: the rate is the
\* default
ResolutionIsTotalWitness ==
    /\ stored.exists
    /\ cfg.provider.given /\ ~cfg.provider.active
    /\ cfg.provider_currency.present /\ cfg.provider_only.present
    /\ ~cfg.currency_only.present /\ ~cfg.global.present
    /\ stored.commission_rate = Rates.default

\* C28: transitions on one Transaction are totally ordered: a handler that
\* writes the transaction decides on the status that is stored when its
\* write is applied, so no handler writes over a status that another has
\* stored since the handler read the row (checked under Spec)
WritesSeeCurrentStatus ==
    [][\A w \in DOMAIN pc :
          (/\ pc[w] # "idle"
           /\ pc'[w] # pc[w]
           /\ txn'[loc[w].t] # txn[loc[w].t]) =>
             loc[w].row.status = txn[loc[w].t].status]_vars

\* C29: when the rail has confirmed a deposit, the net amount is added to
\* the escrow account and the transaction is ready_for_claim when the
\* handler ends, on the card path and on the crypto path (checked under
\* Spec)
ConfirmedDepositIsReadyForClaim ==
    [][/\ \A w \in DOMAIN pc :
             ConfirmReady(w) => txn'[loc[w].t].status = "ready_for_claim"
       /\ \A w \in DOMAIN pc :
             CryptoMoveToEscrow(w) =>
                /\ acct'["crypto"].total_balance =
                      acct["crypto"].total_balance + NetAmount
                /\ txn'[loc[w].t].status = "ready_for_claim"]_vars

\* C30: a claim of an unused, unexpired code whose transaction is
\* ready_for_claim, with a recipient the rail can pay, is accepted
\* (checked under Spec)
ReadyForClaimIsClaimable ==
    \A t \in Txns, rcp \in Recipients :
        (/\ txn[t].status = "ready_for_claim"
         /\ ~promo[t].is_used
         /\ ~is_expired(promo[t])
         /\ rcp.contact
         /\ rcp.payout_method = "stripe_card") =>
           ValidateClaim(promo[t], txn[t], rcp) = "SUCCESS"

\* C31: the status of every Transaction is one of the eleven declared
\* states in every reachable state (checked under Spec)
StatusIsDeclared ==
    \A t \in Txns : txn[t].status \in STATUS_CHOICES

\* C32: every status transition of a Transaction that has a provider puts
\* exactly one ProviderWebhook item for the event into the delivery queue
\* (checked under Spec)
TransitionEnqueuesOneWebhook ==
    [][\A t \in Txns :
          (txn[t].provider /\ txn'[t].status # txn[t].status) =>
             whq'[t] = whq[t] + 1]_vars

SubmittedMethodReachesARail ==
    [][\A w \in Workers :
          (/\ ClaimPayout(w, "ok")
           /\ loc[w].rcp.payout_method \in SubmittableMethods
           /\ loc[w].rcp.wallet = "valid"
           /\ loc[w].row.converted_currency \in CryptoRailCurrencies) =>
             PayoutSucceeded(payout'[loc[w].t])]_vars

\* C35: the net amount of a transaction is credited to escrow at most
\* once: repeating the crypto deposit check never brings the total balance
\* of the crypto escrow account above the sum of the net amounts of the
\* transactions deposited (checked under Spec)
EscrowCreditedAtMostOnce ==
    acct["crypto"].total_balance <= NumTxns * NetAmount

DeliveredIsFinal ==
    [][/\ wh.delivered => wh'.delivered
       /\ \A r \in Runs : (RunDelivered(r) \/ RunFailed(r)) => ~wh.delivered
       /\ wh'.delivery_attempts >= wh.delivery_attempts
       /\ wh'.delivery_attempts <= MaxAttempts]_vars

\* C38: whenever the status of a Transaction is completed its
\* completed_at is set, whichever path completed it: fiat processing or
\* the payout-paid webhook (checked under Spec)
CompletedHasCompletedAt ==
    \A t \in Txns : txn[t].status = "completed" => txn[t].completed_at

\* C39: the rate that commission resolution returns lies in
\* [0, MAX_COMMISSION_RATE] whichever level supplies it, so that every
\* stored Transaction has 0 <= commission_amount <= converted_amount and
\* net_amount >= 0 (checked under SpecCommission)
ResolvedRateIsInRange ==
    stored.exists =>
        /\ stored.commission_rate >= 0
        /\ stored.commission_rate <= max_rate
        /\ stored.commission_amount >= 0
        /\ stored.commission_amount <= stored.converted_amount
        /\ stored.net_amount >= 0

=============================================================================
